---------------------------- MODULE Spec2Model ----------------------------
(***************************************************************************)
(* A model of the EU Digital COVID Certificate UVCI parser (src/src/lib.rs).*)
(*                                                                         *)
(* A Rust String is modelled as a sequence of one-character strings, so    *)
(* that splitting, replacing and slicing work on characters as they do in  *)
(* the program.  Every input the model considers is ASCII, where bytes and *)
(* characters coincide (String::len counts bytes).                         *)
(***************************************************************************)
EXTENDS Integers, Sequences, FiniteSets, TLC

(***************************************************************************)
(* Characters and strings                                                  *)
(***************************************************************************)
UpperLetters ==
    << "A","B","C","D","E","F","G","H","I","J","K","L","M",
       "N","O","P","Q","R","S","T","U","V","W","X","Y","Z" >>

LowerLetters ==
    << "a","b","c","d","e","f","g","h","i","j","k","l","m",
       "n","o","p","q","r","s","t","u","v","w","x","y","z" >>

Digits == << "0","1","2","3","4","5","6","7","8","9" >>

Range(s) == { s[i] : i \in 1..Len(s) }

\* The sequence f itself, held as a tuple of its elements: TLC would else
\* keep [i \in 1..n |-> e] as an expression and evaluate e again at every
\* use.
Tuple(f) == f \o << >>

\* The element of a one-element set.  { e(x) : x \in { v } } computes v once
\* and e on that value, however often e refers to x.
Only(S) == CHOOSE x \in S : TRUE

\* Position of character c in sequence s (1-based), 0 when absent.
IndexOf(c, s) ==
    IF \E i \in 1..Len(s) : s[i] = c
    THEN CHOOSE i \in 1..Len(s) : s[i] = c
    ELSE 0

\* ToUppercase with the normalisation forgotten: the string as given.
KeepCase(s) == s

\* char::to_uppercase on ASCII.
ToUpperChar(c) ==
    IF IndexOf(c, LowerLetters) > 0 THEN UpperLetters[IndexOf(c, LowerLetters)] ELSE c

\* char::to_lowercase on ASCII.
ToLowerChar(c) ==
    IF IndexOf(c, UpperLetters) > 0 THEN LowerLetters[IndexOf(c, UpperLetters)] ELSE c

\* str::to_uppercase
ToUppercase(s) == Tuple([ i \in 1..Len(s) |-> ToUpperChar(s[i]) ])

\* str::to_lowercase
ToLowercase(s) == Tuple([ i \in 1..Len(s) |-> ToLowerChar(s[i]) ])

\* str::starts_with
StartsWith(s, p) == Len(s) >= Len(p) /\ SubSeq(s, 1, Len(p)) = p

\* str::replace(from, to) for a one-character pattern and a replacement of
\* at most one character (to = "" deletes).
Replace(s, from, to) ==
    IF to = "" THEN SelectSeq(s, LAMBDA c : c # from)
    ELSE Tuple([ i \in 1..Len(s) |-> IF s[i] = from THEN to ELSE s[i] ])

\* str::split(sep).collect::<Vec<&str>>() for a one-character separator: the
\* pieces between separators, empty pieces included; never an empty vector.
\* cut[k] is the position of the k-th separator, with 0 and Len(s) + 1 as
\* the cuts before the first and after the last piece.
Split(s, sep) ==
    LET at  == { i \in 1..Len(s) : s[i] = sep }
        n   == Cardinality(at)
        cut == [ k \in 0..(n + 1) |->
                   IF k = 0 THEN 0
                   ELSE IF k = n + 1 THEN Len(s) + 1
                   ELSE CHOOSE p \in at : Cardinality({ q \in at : q < p }) = k - 1 ]
    IN  Tuple([ k \in 1..(n + 1) |-> SubSeq(s, cut[k - 1] + 1, cut[k] - 1) ])

(***************************************************************************)
(* rearrange (lib.rs 400-442): uppercase, drop '#', then 38 replacements   *)
(* applied one after the other in the order of the source, then uppercase. *)
(***************************************************************************)
RearrangeSteps ==
    << <<"#","">>,
       <<"M","a">>, <<"N","b">>, <<"O","c">>, <<"P","d">>, <<"Q","e">>,
       <<"R","f">>, <<"S","g">>, <<"T","h">>, <<"U","i">>, <<"V","j">>,
       <<"W","k">>, <<"X","l">>, <<"Y","m">>, <<"Z","m">>,
       <<"0","o">>, <<"1","p">>, <<"2","q">>, <<"3","r">>, <<"4","s">>,
       <<"5","t">>, <<"6","u">>, <<"7","v">>, <<"8","w">>, <<"9","x">>,
       <<"/","y">>, <<":","z">>,
       <<"A","/">>, <<"B","0">>, <<"C","1">>, <<"D","2">>, <<"E","3">>,
       <<"F","4">>, <<"G","5">>, <<"H","6">>, <<"I","7">>, <<"J","8">>,
       <<"K","9">>, <<"L",":">> >>

\* Steps k, k + 1, ... applied to s one after the other.  The comparison of
\* t with s changes nothing: it makes TLC compute each intermediate string
\* before it goes on to the next step.
RECURSIVE ApplySteps(_, _, _)
ApplySteps(s, steps, k) ==
    IF k > Len(steps) THEN s
    ELSE LET t == Replace(s, steps[k][1], steps[k][2])
         IN  IF t = s THEN ApplySteps(s, steps, k + 1)
                      ELSE ApplySteps(t, steps, k + 1)

\* rearrange that only drops '#': the alphabet is left in its native order.
rearrangeNativeOrder(cert_id) == Replace(ToUppercase(cert_id), "#", "")

rearrange(cert_id) ==
    ToUppercase(ApplySteps(ToUppercase(cert_id), RearrangeSteps, 1))

(***************************************************************************)
(* The checksum primitive: luhn::Luhn::validate of the external luhn crate, *)
(* constructed at lib.rs 315 with the alphabet below and called at 316.    *)
(* Luhn mod N over 38 symbols: from the rightmost character of the body    *)
(* leftwards every second value is doubled and reduced to its digit sum in *)
(* base 38; the check character is the one that brings the total to a      *)
(* multiple of 38.  validate yields an error, which parse unwraps, for a   *)
(* string of fewer than two characters or holding a character outside the  *)
(* alphabet.                                                               *)
(***************************************************************************)
LuhnAlphabet ==
    << "/","0","1","2","3","4","5","6","7","8","9",":",
       "A","B","C","D","E","F","G","H","I","J","K","L","M",
       "N","O","P","Q","R","S","T","U","V","W","X","Y","Z" >>

Radix == Len(LuhnAlphabet)

\* Luhn::codepoint: the 0-based position in the alphabet.
Codepoint(c) == IndexOf(c, LuhnAlphabet) - 1

\* The addend of position i of body s: the rightmost character is doubled,
\* then every second one leftwards.
LuhnAddend(s, i) ==
    LET factor == IF (Len(s) - i) % 2 = 0 THEN 2 ELSE 1
        addend == factor * Codepoint(s[i])
    IN  (addend \div Radix) + (addend % Radix)

\* The sum of the addends of positions lo..hi, by halves.
RECURSIVE LuhnSum(_, _, _)
LuhnSum(s, lo, hi) ==
    IF lo > hi THEN 0
    ELSE IF lo = hi THEN LuhnAddend(s, lo)
    ELSE LET mid == (lo + hi) \div 2
         IN  LuhnSum(s, lo, mid) + LuhnSum(s, mid + 1, hi)

\* Luhn::generate: the check character of body s.
LuhnGenerate(s) ==
    LuhnAlphabet[((Radix - (LuhnSum(s, 1, Len(s)) % Radix)) % Radix) + 1]

\* Luhn::validate: [ok |-> FALSE] is Err(_), else value is the verdict.
LuhnValidate(s) ==
    IF Len(s) <= 1 \/ \E i \in 1..Len(s) : IndexOf(s[i], LuhnAlphabet) = 0
    THEN [ok |-> FALSE, value |-> FALSE]
    ELSE [ok |-> TRUE,
          value |-> LuhnGenerate(SubSeq(s, 1, Len(s) - 1)) = s[Len(s)]]

(***************************************************************************)
(* get_vaccination_date_tan (lib.rs 449-492).                              *)
(*                                                                         *)
(* From parse the argument arrives after the checksum pass and holds       *)
(* letters and digits only; the tests call the function with digit strings *)
(* (lib.rs 508-551).  The strings modelled are letters and digits after an *)
(* optional sign: str::parse::<f32> accepts of them digits, digits with an *)
(* exponent (1E5), INF, INFINITY and NAN, so every finite value is an      *)
(* integer.  An f32 is modelled as a sign and mant * 2^shift with mant of  *)
(* at most 24 bits, the decimal value rounded to nearest, ties to even.    *)
(***************************************************************************)
Pow2(k) == 2 ^ k

\* The number of bits of x: the least L with x < 2^L.
RECURSIVE BitLen(_)
BitLen(x) == IF x = 0 THEN 0 ELSE 1 + BitLen(x \div 2)

IsDigits(s) == s # << >> /\ \A i \in 1..Len(s) : IndexOf(s[i], Digits) > 0

DigitValue(c) == IndexOf(c, Digits) - 1

\* The value of a digit string, saturating at cap (cap * 10 + 9 fits an int).
RECURSIVE DecimalCapped(_, _)
DecimalCapped(s, cap) ==
    IF s = << >> THEN 0
    ELSE LET v == DecimalCapped(SubSeq(s, 1, Len(s) - 1), cap) * 10
                    + DigitValue(s[Len(s)])
         IN  IF v > cap THEN cap ELSE v

Limb == 65536
\* Beyond 2^37 the quotient by DosesPerMonth exceeds u16::MAX whatever the
\* rounding, so the value is only recorded as huge.
HugeHi == 2097152

\* A digit string followed by zeros more zeros, as hi * 2^16 + lo; huge once
\* the value reaches 2^37.
RECURSIVE Limbs(_, _, _)
Limbs(s, zeros, acc) ==
    IF acc.huge \/ (s = << >> /\ zeros = 0) THEN acc
    ELSE LET d   == IF s = << >> THEN 0 ELSE DigitValue(Head(s))
             lo2 == acc.lo * 10 + d
             hi2 == acc.hi * 10 + (lo2 \div Limb)
             nxt == [hi |-> hi2, lo |-> lo2 % Limb, huge |-> hi2 >= HugeHi]
         IN  IF s = << >> THEN Limbs(s, zeros - 1, nxt)
             ELSE Limbs(Tail(s), zeros, nxt)

\* The nearest f32 of the integer hi * 2^16 + lo < 2^37.
F32OfLimbs(hi, lo) ==
    LET bits  == IF hi = 0 THEN BitLen(lo) ELSE 16 + BitLen(hi)
        shift == IF bits > 24 THEN bits - 24 ELSE 0
    IN  IF shift = 0
        THEN [kind |-> "finite", mant |-> hi * Limb + lo, shift |-> 0]
        ELSE LET m    == hi * Pow2(16 - shift) + (lo \div Pow2(shift))
                 rem  == lo % Pow2(shift)
                 half == Pow2(shift - 1)
                 up   == rem > half \/ (rem = half /\ m % 2 = 1)
             IN  [kind |-> "finite", mant |-> IF up THEN m + 1 ELSE m,
                  shift |-> shift]

MaxExponent == 40

\* str::parse::<f32>() on a string of letters and digits after an optional
\* sign; neg is the sign bit.
ParseF32(signed) ==
    LET sign == signed # << >> /\ signed[1] \in { "-", "+" }
        s == IF sign THEN Tail(signed) ELSE signed
        e == IndexOf("E", s)
        mantissa == IF e = 0 THEN s ELSE SubSeq(s, 1, e - 1)
        exponent == IF e = 0 THEN << >> ELSE SubSeq(s, e + 1, Len(s))
    IN  [neg |-> sign /\ signed[1] = "-"] @@
        IF s = << "I","N","F" >> \/ s = << "I","N","F","I","N","I","T","Y" >>
        THEN [ok |-> TRUE, kind |-> "inf", mant |-> 0, shift |-> 0]
        ELSE IF s = << "N","A","N" >>
        THEN [ok |-> TRUE, kind |-> "nan", mant |-> 0, shift |-> 0]
        ELSE IF IsDigits(mantissa) /\ (e = 0 \/ IsDigits(exponent))
        THEN LET zeros == IF e = 0 \/ DecimalCapped(mantissa, 1) = 0 THEN 0
                          ELSE DecimalCapped(exponent, MaxExponent)
                 l == Limbs(mantissa, zeros, [hi |-> 0, lo |-> 0, huge |-> FALSE])
             IN  IF l.huge
                 THEN [ok |-> TRUE, kind |-> "huge", mant |-> 0, shift |-> 0]
                 ELSE [ok |-> TRUE] @@ F32OfLimbs(l.hi, l.lo)
        ELSE [ok |-> FALSE, kind |-> "nan", mant |-> 0, shift |-> 0]

\* Line 458: vaccination_doses < 0.0, which -0.0 and a NaN are not.
IsNegative(f) ==
    /\ f.neg
    /\ f.kind # "nan"
    /\ f.kind = "finite" => f.mant > 0

TanLimit == 13983264
TanCentre == 6991632
TanWidth == 5536858
DosesPerMonth == 1552008
U16Max == 65535

\* (5.03 + (-tan((6991632 - n) / 5536858)) * 1.6).round() for 0 <= n <= TanLimit.
\* The expression grows with n, so it is the number of k in 1..10 whose
\* threshold TanThreshold[k], the least n at which the expression reaches
\* k - 0.5, i.e. 6991632 - 5536858 * atan((5.53 - k) / 1.6), is at most n.
\* The thresholds are those of the expression evaluated in f32 with a
\* correctly rounded tan.
TanThreshold ==
    << 174249, 650620, 1416651, 2766801, 5220532,
       8573584, 11105950, 12506276, 13296752, 13785711 >>

\* TanMonth without the rounding, `mth_f as u16`: month k is reached where
\* the expression reaches k, not k - 0.5.
TanMonthTruncated(n) ==
    Cardinality({ k \in 1..10 :
        << 386938, 984367, 1990155, 3824721, 6887827,
           10009232, 11912076, 12952914, 13567686, 13964431 >>[k] <= n })

TanMonth(n) == Cardinality({ k \in 1..Len(TanThreshold) : TanThreshold[k] <= n })

\* (mant * 2^shift) / 1552008.0 in f32, then `as u16`: the quotient q with
\* remainder r by long division, one more when the exact quotient rounds up
\* to the integer q + 1, saturated.
RECURSIVE LongDiv(_, _, _)
LongDiv(q, r, shift) ==
    IF shift = 0 THEN [q |-> q, r |-> r]
    ELSE LET r2 == 2 * r
         IN  IF r2 >= DosesPerMonth
             THEN LongDiv(2 * q + 1, r2 - DosesPerMonth, shift - 1)
             ELSE LongDiv(2 * q, r2, shift - 1)

LinearMonth(f) ==
    LET d  == LongDiv(f.mant \div DosesPerMonth, f.mant % DosesPerMonth, f.shift)
        e  == BitLen(d.q) - 1
        up == d.r > 0 /\ (DosesPerMonth - d.r) <= DosesPerMonth \div Pow2(24 - e)
        m  == IF up THEN d.q + 1 ELSE d.q
    IN  IF m > U16Max THEN U16Max ELSE m

\* while month > 12 { month -= 12 }: the loop leaves the value of 1..12
\* congruent to m modulo 12.
ReduceMonth(m) == IF m > 12 THEN ((m - 1) % 12) + 1 ELSE m

get_vaccination_date_tan(opaque_id) ==
    Only({
    LET vaccination_month ==
            IF f.kind = "finite" /\ f.shift = 0 /\ f.mant <= TanLimit
            THEN TanMonth(f.mant)
            ELSE IF f.kind = "finite" THEN LinearMonth(f)
            ELSE IF f.kind = "nan" THEN 0
            ELSE U16Max
        vaccination_year ==
            IF vaccination_month = 0 THEN 2020
            ELSE ((vaccination_month - 1) \div 12) + 2021
    IN  IF ~f.ok \/ IsNegative(f) THEN << 0, 0 >>
        ELSE << IF vaccination_month = 0 THEN 12 ELSE ReduceMonth(vaccination_month),
                vaccination_year >>
    : f \in { ParseF32(Replace(opaque_id, "V", "")) } })

(***************************************************************************)
(* parse (lib.rs 277-391)                                                  *)
(***************************************************************************)
MaxCertIdLen == 72

URN_UVCI == << "U","R","N",":","U","V","C","I",":" >>
URN      == << "U","R","N" >>
UVCI     == << "U","V","C","I" >>
SE       == << "S","E" >>
EHM      == << "E","H","M" >>

\* The record parse starts from (lib.rs 278-292).  The three schema
\* descriptions are kept as whole strings: nothing looks inside them.
DefaultUvci ==
    [ version                  |-> 0,
      country                  |-> << >>,
      schema_option_number     |-> 0,
      schema_option_desc       |-> "",
      issuing_entity           |-> << >>,
      vaccine_id               |-> << >>,
      opaque_unique_string     |-> << >>,
      opaque_id                |-> << >>,
      opaque_issuance          |-> << >>,
      opaque_vaccination_month |-> 0,
      opaque_vaccination_year  |-> 0,
      checksum                 |-> << >>,
      checksum_verification    |-> FALSE ]

\* str::parse::<u8>() on a string of the checksum alphabet: [ok, value].
ParseU8(s) ==
    IF IsDigits(s) /\ DecimalCapped(s, 256) <= 255
    THEN [ok |-> TRUE, value |-> DecimalCapped(s, 256)]
    ELSE [ok |-> FALSE, value |-> 0]

\* DetectSchema with the arms for one and for two segments exchanged.
DetectSchemaSwapped(d, segs) ==
    IF Len(segs) = 3
    THEN [d EXCEPT !.schema_option_number = 1,
                   !.schema_option_desc   = "identifier with semantics",
                   !.issuing_entity       = segs[1],
                   !.vaccine_id           = segs[2],
                   !.opaque_unique_string = segs[3]]
    ELSE IF Len(segs) = 2
    THEN [d EXCEPT !.schema_option_number = 2,
                   !.schema_option_desc   = "opaque identifier - no structure",
                   !.opaque_unique_string = segs[1]]
    ELSE IF Len(segs) = 1
    THEN [d EXCEPT !.schema_option_number = 3,
                   !.schema_option_desc   = "some semantics",
                   !.issuing_entity       = segs[1],
                   !.opaque_unique_string = << >>]
    ELSE d

\* Lines 350-372: the dispatch on the number of '/'-separated segments.
DetectSchema(d, segs) ==
    IF Len(segs) = 3
    THEN [d EXCEPT !.schema_option_number = 1,
                   !.schema_option_desc   = "identifier with semantics",
                   !.issuing_entity       = segs[1],
                   !.vaccine_id           = segs[2],
                   !.opaque_unique_string = segs[3]]
    ELSE IF Len(segs) = 1
    THEN [d EXCEPT !.schema_option_number = 2,
                   !.schema_option_desc   = "opaque identifier - no structure",
                   !.opaque_unique_string = segs[1]]
    ELSE IF Len(segs) = 2
    THEN [d EXCEPT !.schema_option_number = 3,
                   !.schema_option_desc   = "some semantics",
                   !.issuing_entity       = segs[1],
                   !.opaque_unique_string = segs[2]]
    ELSE d

\* IsSwedenEhm with the test of the country left out.
IsEhm(d) ==
    /\ d.version = 1
    /\ d.issuing_entity = EHM
    /\ d.schema_option_number = 3

\* Lines 146-149 and 375-378: Sweden, EHM-issued, schema option 3.
IsSwedenEhm(d) ==
    /\ d.version = 1
    /\ d.country = SE
    /\ d.issuing_entity = EHM
    /\ d.schema_option_number = 3

\* Lines 374-388: the Swedish sub-extraction.
SwedishOpaque(d) ==
    IF IsSwedenEhm(d) /\ Len(d.opaque_unique_string) = 13
    THEN LET id   == SubSeq(d.opaque_unique_string, 1, 9)
             date == get_vaccination_date_tan(id)
         IN  [d EXCEPT !.opaque_id                = id,
                       !.opaque_issuance          = SubSeq(d.opaque_unique_string, 10, 13),
                       !.opaque_vaccination_month = date[1],
                       !.opaque_vaccination_year  = date[2]]
    ELSE d

\* Lines 318-390, from the split on '#' on; d holds checksum_verification.
\* A result is [panicked, exit, uvci_data]; panicked stands for the thread
\* unwinding out of parse (an unwrap of Err, an index out of range), exit
\* names the statement parse left by.
ParseBlocks(cert_id, d0) ==
    Only({ Only({
    LET d1     == IF Len(vec0) > 1 THEN [d0 EXCEPT !.checksum = vec0[2]] ELSE d0
        v      == ParseU8(vec[3])
        d2     == IF v.ok THEN [d1 EXCEPT !.version = v.value] ELSE d1
        d3     == [d2 EXCEPT !.country = vec[4]]
    IN  IF vec[1] # URN /\ Len(vec) < 2
        THEN [panicked |-> TRUE, exit |-> "index", uvci_data |-> d1]
        ELSE IF vec[1] # URN /\ vec[2] # UVCI
        THEN [panicked |-> FALSE, exit |-> "prefix", uvci_data |-> d1]
        ELSE IF Len(vec) < 4
        THEN [panicked |-> FALSE, exit |-> "blocks < 4", uvci_data |-> d1]
        ELSE IF Len(vec) < 5
        THEN [panicked |-> FALSE, exit |-> "blocks < 5", uvci_data |-> d3]
        ELSE [panicked |-> FALSE, exit |-> "end",
              uvci_data |-> Only({ SwedishOpaque(d) :
                                   d \in { Only({ DetectSchema(d3, segs) :
                                           segs \in { Split(vec[5], "/") } }) } })]
    : vec \in { Split(vec0[1], ":") } })
    : vec0 \in { Split(cert_id, "#") } })

\* TooLong off by one: 73 characters still pass.
TooLongOffByOne(cert_id) == Len(cert_id) > MaxCertIdLen + 1

\* Line 300: cert_id.len() > 72.  An identifier is a sequence of ASCII
\* characters here, so its length is its length in bytes.
TooLong(cert_id) == Len(cert_id) > MaxCertIdLen

\* Canonical with the prefix step left out.
NeverPrefixed(cert_id) == cert_id

\* Canonical that adds the prefix without looking for it.
AlwaysPrefixed(cert_id) == URN_UVCI \o cert_id

\* Lines 308-312: the prefix is added to an identifier that lacks it.
Canonical(cert_id) ==
    IF StartsWith(cert_id, URN_UVCI) THEN cert_id ELSE URN_UVCI \o cert_id

\* parse.  luhn_calls counts the calls of Luhn::validate.
parse(cert_id) ==
    IF cert_id = << >> \/ TooLong(cert_id)
    THEN [panicked |-> FALSE, exit |-> "guard", luhn_calls |-> 0,
          uvci_data |-> DefaultUvci]
    ELSE Only({ Only({
             IF ~luhn.ok
             THEN [panicked |-> TRUE, exit |-> "unwrap", luhn_calls |-> 1,
                   uvci_data |-> DefaultUvci]
             ELSE [luhn_calls |-> 1] @@
                  ParseBlocks(full, [DefaultUvci EXCEPT
                                        !.checksum_verification = luhn.value])
         : luhn \in { LuhnValidate(rearrange(full)) } })
         : full \in { Canonical(ToUppercase(cert_id)) } })

(***************************************************************************)
(* to_graph, uvci_to_graph and uvcis_to_graph (lib.rs 116-230)             *)
(***************************************************************************)
\* 'CREATE (' (lib.rs 160)
CreateOpen ==
    << "C","R","E","A","T","E"," ","(" >>

\* ":country {name:'" (lib.rs 162)
CountryOpen ==
    << ":","c","o","u","n","t","r","y"," ","{","n","a","m","e",":","'" >>

\* 'Sweden' (lib.rs 156)
VarCountry ==
    << "S","w","e","d","e","n" >>

\* "'})-[:COUNTRY_OF {}]->(" (lib.rs 164)
CountryOf ==
    << "'","}",")","-","[",":","C","O","U","N","T","R","Y","_","O","F"," ",
       "{","}","]","-",">","(" >>

\* ":issuing_entity {name:'" (lib.rs 166)
IssuingEntityOpen ==
    << ":","i","s","s","u","i","n","g","_","e","n","t","i","t","y"," ","{",
       "n","a","m","e",":","'" >>

\* 'E-Hälso Myndigheten' (lib.rs 157)
VarIssuer ==
    << "E","-","H","ä","l","s","o"," ","M","y","n","d","i","g","h","e","t",
       "e","n" >>

\* "'})\n" (lib.rs 168)
NodeClose ==
    << "'","}",")","\n" >>

\* ')-[:ISSUER_OF {}]->(' (lib.rs 173)
IssuerOf ==
    << ")","-","[",":","I","S","S","U","E","R","_","O","F"," ","{","}","]",
       "-",">","(" >>

\* ":opaque_id {name:'" (lib.rs 175)
OpaqueIdOpen ==
    << ":","o","p","a","q","u","e","_","i","d"," ","{","n","a","m","e",":",
       "'" >>

\* ":vac_date {name:'" (lib.rs 208)
VacDateOpen ==
    << ":","v","a","c","_","d","a","t","e"," ","{","n","a","m","e",":","'" >>

\* ')-[:VAC_DATE_OF {}]->(' (lib.rs 215)
VacDateOf ==
    << ")","-","[",":","V","A","C","_","D","A","T","E","_","O","F"," ","{",
       "}","]","-",">","(" >>

\* ')\n' (lib.rs 217)
RelClose ==
    << ")","\n" >>

\* ":reissue_id {name:'" (lib.rs 222)
ReissueIdOpen ==
    << ":","r","e","i","s","s","u","e","_","i","d"," ","{","n","a","m","e",
       ":","'" >>

\* "'})-[:REISSUE_OF {}]->(" (lib.rs 224)
ReissueOf ==
    << "'","}",")","-","[",":","R","E","I","S","S","U","E","_","O","F"," ",
       "{","}","]","-",">","(" >>

\* 'CREATE' (lib.rs 125)
CREATE ==
    << "C","R","E","A","T","E" >>

MonthNames ==
    << << "J","a","n" >>, << "F","e","b" >>, << "M","a","r" >>,
       << "A","p","r" >>, << "M","a","y" >>, << "J","u","n" >>,
       << "J","u","l" >>, << "A","u","g" >>, << "S","e","p" >>,
       << "O","c","t" >>, << "N","o","v" >>, << "D","e","c" >> >>

Unknown == << "U","n","k","n","o","w","n" >>

\* u8::to_string and u16::to_string.
RECURSIVE NatToString(_)
NatToString(n) ==
    IF n < 10 THEN << Digits[n + 1] >>
    ELSE NatToString(n \div 10) \o << Digits[(n % 10) + 1] >>

\* The concatenation of the strings seqs[lo], ..., seqs[hi].
RECURSIVE ConcatRange(_, _, _)
ConcatRange(seqs, lo, hi) ==
    IF lo > hi THEN << >>
    ELSE IF lo = hi THEN seqs[lo]
    ELSE LET mid == (lo + hi) \div 2
         IN  ConcatRange(seqs, lo, mid) \o ConcatRange(seqs, mid + 1, hi)

Concat(seqs) == ConcatRange(seqs, 1, Len(seqs))

to_graph(uvci_data) ==
    IF ~IsSwedenEhm(uvci_data) THEN << >>
    ELSE
    LET month          == uvci_data.opaque_vaccination_month
        year           == uvci_data.opaque_vaccination_year
        var_date_name  == << "d" >> \o NatToString(year) \o NatToString(month)
        var_month_name == IF month \in 1..12 THEN MonthNames[month] ELSE Unknown
        var_date_data  == var_month_name \o << " " >> \o NatToString(year)
    IN  Concat(<<
          CreateOpen, uvci_data.country, CountryOpen, VarCountry, CountryOf,
          uvci_data.issuing_entity, IssuingEntityOpen, VarIssuer, NodeClose,
          CreateOpen, uvci_data.issuing_entity, IssuerOf, uvci_data.opaque_id,
          OpaqueIdOpen, uvci_data.opaque_id, NodeClose,
          CreateOpen, var_date_name, VacDateOpen, var_date_data, NodeClose,
          CreateOpen, var_date_name, VacDateOf, uvci_data.opaque_id, RelClose,
          CreateOpen, uvci_data.opaque_unique_string, ReissueIdOpen,
          uvci_data.opaque_issuance, ReissueOf, uvci_data.opaque_id, RelClose
        >>)

\* uvci_to_graph: [panicked, text].
uvci_to_graph(cert_id) ==
    Only({ [panicked |-> r.panicked,
            text     |-> IF r.panicked THEN << >>
                         ELSE Only({ to_graph(d) : d \in { r.uvci_data } })]
           : r \in { parse(cert_id) } })

\* Itertools::unique: the first occurrence of every value, in order.
Unique(values) ==
    LET keep == { i \in 1..Len(values) :
                    \A j \in 1..(i - 1) : values[j] # values[i] }
    IN  Tuple([ k \in 1..Cardinality(keep) |->
            values[CHOOSE i \in keep : Cardinality({ j \in keep : j < i }) = k - 1] ])

\* str::replace("CREATE", "\nCREATE"): a line feed before every occurrence
\* (an occurrence of CREATE cannot overlap another).
ReplaceCreate(s) ==
    LET at  == { i \in 1..(Len(s) - Len(CREATE) + 1) :
                   SubSeq(s, i, i + Len(CREATE) - 1) = CREATE }
        n   == Cardinality(at)
        cut == [ k \in 1..(n + 1) |->
                   IF k = n + 1 THEN Len(s) + 1
                   ELSE CHOOSE p \in at : Cardinality({ q \in at : q < p }) = k - 1 ]
    IN  IF n = 0 THEN s
        ELSE SubSeq(s, 1, cut[1] - 1)
               \o Concat(Tuple([ k \in 1..n |->
                             << "\n" >> \o SubSeq(s, cut[k], cut[k + 1] - 1) ]))

\* uvcis_to_graph: [panicked, text].
uvcis_to_graph(ids) ==
    Only({
        IF \E k \in 1..Len(ids) : each[k].panicked
        THEN [panicked |-> TRUE, text |-> << >>]
        ELSE [panicked |-> FALSE,
              text |-> Only({ Only({ Only({ Only({ Only({ ReplaceCreate(joined)
                       : joined \in { Concat(values) } })
                       : values \in { Unique(lines) } })
                       : lines  \in { Split(cypher_cmd, "\n") } })
                       : cypher_cmd \in { Concat(texts) } })
                       : texts  \in { Tuple([ k \in 1..Len(ids) |-> each[k].text ]) } })]
        : each \in { Tuple([ k \in 1..Len(ids) |-> uvci_to_graph(ids[k]) ]) } })

(***************************************************************************)
(* The identifiers the model submits                                       *)
(***************************************************************************)
\* tests::swedish_uvci_with_checksum_valid (lib.rs 579-595).
ValidIds ==
    << << "U","R","N",":","U","V","C","I",":","0","1",":","S","E",":","E","H","M","/","V","1","2","9","0","7","2","6","7","L","A","J","W","#","E" >>,
       << "U","R","N",":","U","V","C","I",":","0","1",":","S","E",":","E","H","M","/","V","1","2","9","1","6","2","2","7","T","F","J","J","#","Q" >>,
       << "U","R","N",":","U","V","C","I",":","0","1",":","S","E",":","E","H","M","/","V","1","2","9","2","0","0","6","4","N","Y","O","H","#","4" >>,
       << "U","R","N",":","U","V","C","I",":","0","1",":","S","E",":","E","H","M","/","V","1","2","9","2","3","9","3","1","N","N","B","Y","#","T" >>,
       << "U","R","N",":","U","V","C","I",":","0","1",":","S","E",":","E","H","M","/","V","1","2","9","3","9","0","0","8","L","S","V","R","#","F" >>,
       << "U","R","N",":","U","V","C","I",":","0","1",":","S","E",":","E","H","M","/","V","1","2","9","3","9","0","3","7","P","X","F","J","#","V" >>,
       << "U","R","N",":","U","V","C","I",":","0","1",":","S","E",":","E","H","M","/","V","1","2","9","4","0","1","2","6","M","R","X","Q","#","N" >>,
       << "U","R","N",":","U","V","C","I",":","0","1",":","S","E",":","E","H","M","/","V","1","2","9","5","6","4","7","2","W","R","G","E","#","7" >>,
       << "U","R","N",":","U","V","C","I",":","0","1",":","S","E",":","E","H","M","/","V","1","2","9","6","5","0","4","6","A","L","N","M","#","I" >>,
       << "U","R","N",":","U","V","C","I",":","0","1",":","S","E",":","E","H","M","/","V","1","2","9","8","2","9","2","4","Y","Q","M","V","#","T" >>,
       << "U","R","N",":","U","V","C","I",":","0","1",":","S","E",":","E","H","M","/","V","1","2","9","9","1","0","7","4","U","C","I","C","#","4" >>,
       << "U","R","N",":","U","V","C","I",":","0","1",":","S","E",":","E","H","M","/","V","1","2","9","9","3","6","8","6","O","V","C","X","#","R" >>,
       << "U","R","N",":","U","V","C","I",":","0","1",":","S","E",":","E","H","M","/","V","1","2","9","9","6","5","4","4","D","V","K","M","#","M" >>,
       << "U","R","N",":","U","V","C","I",":","0","1",":","S","E",":","E","H","M","/","V","1","2","9","9","7","9","8","0","A","S","M","G","#","1" >>,
       << "U","R","N",":","U","V","C","I",":","0","1",":","S","E",":","E","H","M","/","V","1","2","9","9","8","4","0","4","M","N","Q","F","#","6" >> >>

\* tests::swedish_uvci_with_checksum_invalid (lib.rs 607-623): the same
\* bodies with the check characters A,B,C,D,E,F,G,H,0,1,2,3,4,5,9.
InvalidIds ==
    << << "U","R","N",":","U","V","C","I",":","0","1",":","S","E",":","E","H","M","/","V","1","2","9","0","7","2","6","7","L","A","J","W","#","A" >>,
       << "U","R","N",":","U","V","C","I",":","0","1",":","S","E",":","E","H","M","/","V","1","2","9","1","6","2","2","7","T","F","J","J","#","B" >>,
       << "U","R","N",":","U","V","C","I",":","0","1",":","S","E",":","E","H","M","/","V","1","2","9","2","0","0","6","4","N","Y","O","H","#","C" >>,
       << "U","R","N",":","U","V","C","I",":","0","1",":","S","E",":","E","H","M","/","V","1","2","9","2","3","9","3","1","N","N","B","Y","#","D" >>,
       << "U","R","N",":","U","V","C","I",":","0","1",":","S","E",":","E","H","M","/","V","1","2","9","3","9","0","0","8","L","S","V","R","#","E" >>,
       << "U","R","N",":","U","V","C","I",":","0","1",":","S","E",":","E","H","M","/","V","1","2","9","3","9","0","3","7","P","X","F","J","#","F" >>,
       << "U","R","N",":","U","V","C","I",":","0","1",":","S","E",":","E","H","M","/","V","1","2","9","4","0","1","2","6","M","R","X","Q","#","G" >>,
       << "U","R","N",":","U","V","C","I",":","0","1",":","S","E",":","E","H","M","/","V","1","2","9","5","6","4","7","2","W","R","G","E","#","H" >>,
       << "U","R","N",":","U","V","C","I",":","0","1",":","S","E",":","E","H","M","/","V","1","2","9","6","5","0","4","6","A","L","N","M","#","0" >>,
       << "U","R","N",":","U","V","C","I",":","0","1",":","S","E",":","E","H","M","/","V","1","2","9","8","2","9","2","4","Y","Q","M","V","#","1" >>,
       << "U","R","N",":","U","V","C","I",":","0","1",":","S","E",":","E","H","M","/","V","1","2","9","9","1","0","7","4","U","C","I","C","#","2" >>,
       << "U","R","N",":","U","V","C","I",":","0","1",":","S","E",":","E","H","M","/","V","1","2","9","9","3","6","8","6","O","V","C","X","#","3" >>,
       << "U","R","N",":","U","V","C","I",":","0","1",":","S","E",":","E","H","M","/","V","1","2","9","9","6","5","4","4","D","V","K","M","#","4" >>,
       << "U","R","N",":","U","V","C","I",":","0","1",":","S","E",":","E","H","M","/","V","1","2","9","9","7","9","8","0","A","S","M","G","#","5" >>,
       << "U","R","N",":","U","V","C","I",":","0","1",":","S","E",":","E","H","M","/","V","1","2","9","9","8","4","0","4","M","N","Q","F","#","9" >> >>

\* tests::assorted_uvci (lib.rs 635-654).
AssortedIds ==
    { << >>,
      << "a" >>,
      << ":",":",":",":",":",":",":",":",":",":" >>,
      << "/","/","/","/","/","/","/","/","/","/" >>,
      << "a",":","a",":","a",":","a",":","a",":","a",":","a",":","a",":","a",":","a",":","a" >>,
      << "U","R","N",":","U","V","C","I",":","0","1",":","S","E",":","/","/","/","/","/","/","/","/","/","/" >>,
      << "U","R","N",":","U","V","C","I",":","0","1",":","A","T",":","1","0","8","0","7","8","4","3","F","9","4","A","E","E","0","E","E","5","0","9","3","F","B","C","2","5","4","B","D","8","1","3","1","0","8","0","7","8","4","F","9","4","A","E","E","0","E","4","3","C","2","5","D","8","1","3","#","B" >>,
      << "U","R","N",":","U","V","C","I",":","0","1",":","S","E",":","E","H","M","/","C","8","7","8","/","1","2","3","4","5","6","7","8","9","A","B","C" >>,
      << "U","R","N",":","U","V","C","I",":","0","1",":","S","E",":","E","H","M","/","C","8","7","8","/","1","2","3","4","5","6","7","8","9","A","B","C","#","B" >>,
      << "0","1",":","S","E",":","E","H","M","/","C","8","7","8","/","1","2","3","4","5","6","7","8","9","A","B","C","#","B" >>,
      << "U","R","N",":","U","V","C","I",":","0","1",":","S","E",":","1","2","3","4","5","6","7","8","9","A","B","C" >>,
      << "U","R","N",":","U","V","C","I",":","0","1",":","A","T",":","1","0","8","0","7","8","4","3","F","9","4","A","E","E","0","E","E","5","0","9","3","F","B","C","2","5","4","B","D","8","1","3","#","B" >>,
      << "U","R","N",":","U","V","C","I",":","0","1",":","S","E",":","E","H","M","/","V","1","2","9","1","6","2","2","7","T","F","J","J","#","Q" >>,
      << "U","R","N",":","U","V","C","I",":","0","1",":","N","L",":","1","8","7","/","3","7","5","1","2","4","2","2","9","2","3" >>,
      << "u","r","n",":","u","v","c","i",":","0","1",":","s","e",":","e","h","m","/","v","1","2","9","8","2","9","2","4","y","q","m","v","#","t" >>,
      << "u","r","n",":","u","v","c","i",":","9","8",":","s","e",":","e","h","m","/","v","1","2","9","8","2","9","2","4","y","q","m","v","#","t" >>,
      << "U","R","N",":","U","V","C","I",":","0","1",":","I","T",":","8","4","A","0","F","1","A","3","5","F","1","D","4","5","4","C","9","6","9","3","9","8","1","2","C","A","5","5","D","5","7","1","#","F" >>,
      << "0","1",":","I","T",":","8","4","A","0","F","1","A","3","5","F","1","D","4","5","4","C","9","6","9","3","9","8","1","2","C","A","5","5","D","5","7","1","#","F" >> }

\* Identifiers put together from a head, a version, a country, a fifth
\* block and a check suffix.
Heads     == { << >>, URN_UVCI }
Versions  == { << "0","1" >>, << "9","8" >> }
Countries == { SE, << "A","T" >> }
Tails     == { << >>, << "#","E" >> }
Payloads ==
    { << "E","H","M","/","V","1","2","9","0","7","2","6","7","L","A","J","W" >>,
      << "E","H","M","/","C","8","7","8","/","1","2","3","4","5","6","7","8","9","A","B","C" >>,
      << "1","2","3","4","5","6","7","8","9","A","B","C" >>,
      << "E","H","M","/","A","B","C" >>,
      << "A","/","B","/","C","/","D" >>,
      << "E","H","M","/","C","R","E","A","T","E","1","2","3","4","5","6","7" >>,
      << "E","H","M","/","V","9","9","9","9","9","9","9","9","A","B","C","D" >>,
      << "X","Y","Z","/","V","1","2","9","0","7","2","6","7","L","A","J","W" >> }

StructuredIds ==
    { h \o v \o << ":" >> \o c \o << ":" >> \o p \o t :
        h \in Heads, v \in Versions, c \in Countries, p \in Payloads, t \in Tails }

\* A character outside the alphabet, short block lists, a version that is
\* no u8, two '#', mixed case, and unprefixed identifiers of 64 and 26
\* characters.
OtherIds ==
    { << " " >>,
      << "U","R","N",":","U","V","C","I",":" >>,
      << "U","R","N",":","U","V","C","I",":","0","1",":","S","E" >>,
      << "U","R","N",":","U","V","C","I",":","2","5","6",":","S","E",":","E","H","M","/","V","1","2","9","0","7","2","6","7","L","A","J","W" >>,
      << "U","R","N",":","U","V","C","I",":","0","0","1",":","S","E",":","E","H","M","/","V","1","2","9","0","7","2","6","7","L","A","J","W","#","E","#","B" >>,
      << "U","r","n",":","U","v","c","i",":","0","1",":","S","e",":","E","h","m","/","V","1","2","9","0","7","2","6","7","l","a","j","w","#","e" >>,
      << "0","1",":","A","T",":","1","0","8","0","7","8","4","3","F","9","4","A","E","E","0","E","E","5","0","9","3","F","B","C","2","5","4","B","D","8","1","3","1","0","8","0","7","8","4","F","9","4","A","E","E","0","E","4","3","C","2","5","D","8","1","3","#","B" >>,
      << "0","1",":","S","E",":","E","H","M","/","Z","Z","Z","Z","Z","Z","Z","Z","Z","Z","Z","Z","Z","#","Z" >> }

\* Unprefixed identifiers of exactly n characters.
Filler(n) == Tuple([ i \in 1..n |-> "7" ])
LongIds ==
    { << "0","1",":","A","T",":" >> \o Filler(n - 6) :
        n \in { MaxCertIdLen - Len(URN_UVCI), MaxCertIdLen - Len(URN_UVCI) + 1,
                MaxCertIdLen, MaxCertIdLen + 1 } }

\* The identifier alphabet in its native order (lib.rs 395) and '#'.
NativeOrder ==
    UpperLetters \o Digits \o << "/", ":" >>

SymbolIds == { << c >> : c \in Range(NativeOrder) \cup { "#" } }

\* Every string of at most MaxFreeLen characters of FreeAlphabet.
MaxFreeLen == 2
FreeAlphabet == { "Z", "1", ":", "/", "#", " " }
FreeIds ==
    UNION { { Tuple(f) : f \in [1..n -> FreeAlphabet] } : n \in 0..MaxFreeLen }

Inputs ==
    Range(ValidIds) \cup Range(InvalidIds) \cup AssortedIds \cup StructuredIds
        \cup OtherIds \cup LongIds \cup SymbolIds \cup FreeIds

\* The lines of the input file of main.rs: identifiers that share a
\* country, an issuer, a date or an opaque id, one that holds the word
\* CREATE, and one that is no Swedish certificate.
GraphIds ==
    { << "U","R","N",":","U","V","C","I",":","0","1",":","S","E",":","E","H","M","/","V","1","2","9","1","6","2","2","7","T","F","J","J","#","Q" >>,
      << "U","R","N",":","U","V","C","I",":","0","1",":","S","E",":","E","H","M","/","V","1","2","9","0","7","2","6","7","L","A","J","W","#","E" >>,
      << "U","R","N",":","U","V","C","I",":","0","1",":","S","E",":","E","H","M","/","V","1","2","9","1","6","2","2","7","A","B","C","D" >>,
      << "U","R","N",":","U","V","C","I",":","0","1",":","S","E",":","E","H","M","/","C","R","E","A","T","E","1","2","3","4","5","6","7" >>,
      << "a" >> }

(***************************************************************************)
(* The state machine                                                       *)
(***************************************************************************)
VARIABLES
    cert_id,        \* the argument of the call in progress
    pc,             \* where that call stands
    uvci_data,      \* the record parse built
    luhn_calls,     \* calls of Luhn::validate made by the call
    rearranged,     \* the string rearrange returned
    cypher_cmd,     \* the text uvci_to_graph returned
    prev,           \* the call before this one: its argument and outcome
    rel,            \* how cert_id was made from the argument before
    calls,          \* calls made so far
    cert_ids,       \* the vector main.rs reads from the input file
    cypher_output,  \* the text uvcis_to_graph returned
    opaque_id,      \* the argument of a call of get_vaccination_date_tan
    vaccination_date, \* the pair that call returned
    exit            \* the statement by which parse was left

vars == << cert_id, pc, uvci_data, luhn_calls, rearranged, cypher_cmd,
           prev, rel, calls, cert_ids, cypher_output, opaque_id,
           vaccination_date, exit >>

MaxCalls == 2
MaxList  == 3

NoCall == [cert_id |-> << >>, pc |-> "none", uvci_data |-> DefaultUvci]

Init ==
    /\ cert_id \in Inputs
    /\ pc = "start"
    /\ uvci_data = DefaultUvci
    /\ luhn_calls = 0
    /\ rearranged = << >>
    /\ cypher_cmd = << >>
    /\ prev = NoCall
    /\ rel = "first"
    /\ calls = 1
    /\ cert_ids = << >>
    /\ cypher_output = << >>
    /\ opaque_id = << >>
    /\ vaccination_date = << >>
    /\ exit = "none"

\* parse(cert_id) (lib.rs 277-391), from call to return or panic.
Parse ==
    /\ pc = "start"
    /\ \E r \in { parse(cert_id) } :
           /\ pc' = IF r.panicked THEN "panicked" ELSE "returned"
           /\ uvci_data' = r.uvci_data
           /\ luhn_calls' = r.luhn_calls
           /\ exit' = r.exit
    /\ UNCHANGED << cert_id, rearranged, cypher_cmd, prev, rel, calls,
                    cert_ids, cypher_output,
                    opaque_id, vaccination_date >>

\* uvci_to_graph(cert_id) (lib.rs 135-137): parse, then to_graph.
UvciToGraph ==
    /\ pc = "start"
    /\ \E r \in { parse(cert_id) } :
           /\ pc' = IF r.panicked THEN "panicked" ELSE "graphed"
           /\ uvci_data' = r.uvci_data
           /\ luhn_calls' = r.luhn_calls
           /\ exit' = r.exit
           /\ cypher_cmd' = IF r.panicked THEN << >> ELSE to_graph(r.uvci_data)
    /\ UNCHANGED << cert_id, rearranged, prev, rel, calls, cert_ids, cypher_output,
                    opaque_id, vaccination_date >>

\* rearrange(cert_id) (lib.rs 400-442).
Rearrange ==
    /\ pc = "start"
    /\ rearranged' = rearrange(cert_id)
    /\ pc' = "rearranged"
    /\ UNCHANGED << cert_id, uvci_data, luhn_calls, cypher_cmd, prev, rel, calls,
                    cert_ids, cypher_output,
                    opaque_id, vaccination_date, exit >>

\* The caller parses a second identifier made from the first.
Resubmit(next_id, how) ==
    /\ pc \in { "returned", "panicked" }
    /\ calls < MaxCalls
    /\ next_id # cert_id
    /\ prev' = [cert_id |-> cert_id, pc |-> pc, uvci_data |-> uvci_data]
    /\ cert_id' = next_id
    /\ rel' = how
    /\ calls' = calls + 1
    /\ pc' = "start"
    /\ uvci_data' = DefaultUvci
    /\ luhn_calls' = 0
    /\ exit' = "none"
    /\ UNCHANGED << rearranged, cypher_cmd, cert_ids, cypher_output,
                    opaque_id, vaccination_date >>

HasPrefix(s) ==
    /\ Len(s) >= Len(URN_UVCI)
    /\ \A i \in 1..Len(URN_UVCI) : s[i] \in { URN_UVCI[i], ToLowerChar(URN_UVCI[i]) }

SubmitPrefixed ==
    /\ ~HasPrefix(cert_id)
    /\ Resubmit(URN_UVCI \o cert_id, "prefixed")

SubmitLowercase == Resubmit(ToLowercase(cert_id), "lowercase")

SubmitUppercase == Resubmit(ToUppercase(cert_id), "uppercase")

Next ==
    \/ Parse
    \/ UvciToGraph
    \/ Rearrange
    \/ SubmitPrefixed
    \/ SubmitLowercase
    \/ SubmitUppercase

Spec == Init /\ [][Next]_vars

(***************************************************************************)
(* The batch export of main.rs                                             *)
(***************************************************************************)
InitGraph ==
    /\ cert_ids = << >>
    /\ pc = "reading"
    /\ cypher_output = << >>
    /\ cert_id = << >>
    /\ uvci_data = DefaultUvci
    /\ luhn_calls = 0
    /\ rearranged = << >>
    /\ cypher_cmd = << >>
    /\ prev = NoCall
    /\ rel = "first"
    /\ calls = 0
    /\ opaque_id = << >>
    /\ vaccination_date = << >>
    /\ exit = "none"

\* lines_from_file (main.rs 9-15): one more line of the input file.
ReadLine ==
    /\ pc = "reading"
    /\ Len(cert_ids) < MaxList
    /\ \E line \in GraphIds : cert_ids' = Append(cert_ids, line)
    /\ UNCHANGED << cert_id, pc, uvci_data, luhn_calls, rearranged, cypher_cmd,
                    prev, rel, calls, cypher_output,
                    opaque_id, vaccination_date, exit >>

\* uvcis_to_graph(&cert_ids) (lib.rs 116-127).
UvcisToGraph ==
    /\ pc = "reading"
    /\ \E r \in { uvcis_to_graph(cert_ids) } :
           /\ pc' = IF r.panicked THEN "panicked" ELSE "exported"
           /\ cypher_output' = r.text
    /\ UNCHANGED << cert_id, uvci_data, luhn_calls, rearranged, cypher_cmd,
                    prev, rel, calls, cert_ids,
                    opaque_id, vaccination_date, exit >>

NextGraph ==
    \/ ReadLine
    \/ UvcisToGraph

SpecGraph == InitGraph /\ [][NextGraph]_vars

(***************************************************************************)
(* The calls of get_vaccination_date_tan made by tests::swedish_uvci_opaque_date *)
(***************************************************************************)
\* The dose counts of the test (lib.rs 510-549).
TestDoses ==
    { 0, 2014920, 6991632, 12916227, 13592955, 13983264, 99999999,
      10427296, 20854592, 31281888 }

\* Dose counts one below, at and one above a multiple of DosesPerMonth.
MaxMonths == 14
MonthEdges ==
    { k * DosesPerMonth + d : k \in 9..MaxMonths, d \in { -1, 0, 1 } }

\* Dose counts DoseStep apart, from 0 to beyond the end of the tangent curve.
DoseStep == 233000
MaxSteps == 64
Sweep == { k * DoseStep : k \in 0..MaxSteps }

\* Dose counts at and one below a step of the tangent curve, and on both
\* sides of its end.
CurveEdges ==
    { TanThreshold[k] - d : k \in 1..Len(TanThreshold), d \in { 0, 1 } }
        \cup { TanLimit - 1, TanLimit + 1 }

\* No number, a number behind V, the special values, exponents, signs.
OtherDates ==
    { << >>,
      << "A","B","C" >>,
      << "V" >>,
      << "V","1","2","9","0","7","2","6","7" >>,
      << "V","0","0","0","1","6","2","2","7" >>,
      << "N","A","N" >>,
      << "I","N","F" >>,
      << "I","N","F","I","N","I","T","Y" >>,
      << "1","E","5" >>,
      << "0","E","9" >>,
      << "9","E","9" >>,
      << "1","2","E","3","8" >>,
      << "1","E" >>,
      << "E","5" >>,
      << "-","5" >>,
      << "-","0" >>,
      << "+","5" >>,
      << "-","I","N","F" >>,
      << "-","N","A","N" >>,
      << "-" >>,
      << "-","V","5" >>,
      << "-","1","3","9","8","3","2","6","5" >> }

DateInputs ==
    { NatToString(n) : n \in TestDoses \cup MonthEdges \cup Sweep \cup CurveEdges }
        \cup OtherDates

InitDate ==
    /\ opaque_id \in DateInputs
    /\ vaccination_date = << >>
    /\ exit = "none"
    /\ pc = "start"
    /\ cert_id = << >>
    /\ uvci_data = DefaultUvci
    /\ luhn_calls = 0
    /\ rearranged = << >>
    /\ cypher_cmd = << >>
    /\ prev = NoCall
    /\ rel = "first"
    /\ calls = 0
    /\ cert_ids = << >>
    /\ cypher_output = << >>

\* get_vaccination_date_tan(opaque_id) (lib.rs 449-492).
GetVaccinationDateTan ==
    /\ pc = "start"
    /\ vaccination_date' = get_vaccination_date_tan(opaque_id)
    /\ pc' = "dated"
    /\ UNCHANGED << cert_id, uvci_data, luhn_calls, rearranged, cypher_cmd, prev,
                    rel, calls, cert_ids, cypher_output, opaque_id, exit >>

NextDate == GetVaccinationDateTan

SpecDate == InitDate /\ [][NextDate]_vars

(***************************************************************************)
(* An identifier and the same identifier with another check character, as  *)
(* in tests::swedish_uvci_with_checksum_valid and _invalid (lib.rs 577-631) *)
(***************************************************************************)
\* The body of the first identifier of the tests, and the same body with
\* another character before the last.
CheckBodies ==
    { << "U","R","N",":","U","V","C","I",":","0","1",":","S","E",":","E","H","M","/","V","1","2","9","0","7","2","6","7","L","A","J","W" >>,
      << "U","R","N",":","U","V","C","I",":","0","1",":","S","E",":","E","H","M","/","V","1","2","9","0","7","2","6","7","L","A","1","W" >> }

CheckInputs ==
    { b \o << "#", c >> : b \in CheckBodies, c \in Range(NativeOrder) }

InitCheck ==
    /\ cert_id \in CheckInputs
    /\ pc = "start"
    /\ uvci_data = DefaultUvci
    /\ luhn_calls = 0
    /\ rearranged = << >>
    /\ cypher_cmd = << >>
    /\ prev = NoCall
    /\ rel = "first"
    /\ calls = 1
    /\ cert_ids = << >>
    /\ cypher_output = << >>
    /\ opaque_id = << >>
    /\ vaccination_date = << >>
    /\ exit = "none"

\* The caller parses the first identifier again with another character
\* after its '#'.
SubmitCheckChar ==
    /\ rel = "first"
    /\ Len(cert_id) >= 2
    /\ cert_id[Len(cert_id) - 1] = "#"
    /\ \E c \in Range(NativeOrder) :
           Resubmit(SubSeq(cert_id, 1, Len(cert_id) - 1) \o << c >>, "check")

NextCheck ==
    \/ Parse
    \/ SubmitCheckChar

SpecCheck == InitCheck /\ [][NextCheck]_vars

(***************************************************************************)
(* The claims                                                              *)
(***************************************************************************)
Finished == pc \in { "returned", "panicked" }

\* C1: parse never aborts: for every input string whatsoever, also one with
\* a character outside the alphabet such as a space, the call ends by
\* returning a record and never in a panic.
C1_ParseNeverAborts == pc # "panicked"

\* The blocks of the canonical form of an identifier: uppercase, prefixed,
\* cut at the first '#', split on ':'.
BlocksOf(id) == Split(Split(Canonical(ToUppercase(id)), "#")[1], ":")

PassesGuards(id) == id # << >> /\ Len(id) <= MaxCertIdLen

\* C2: for every input that reaches the dispatch with at least five blocks,
\* the number k of '/'-separated segments of the fifth block decides the
\* record: k = 3 gives option 1 with issuing_entity, vaccine_id and
\* opaque_unique_string; k = 1 gives option 2 with opaque_unique_string;
\* k = 2 gives option 3 with issuing_entity and opaque_unique_string; any
\* other k leaves option 0.  In every returned record the option is at
\* most 3, the description is the option's, vaccine_id is set only for
\* option 1 and issuing_entity only for options 1 and 3.
C2_SchemaDispatch ==
    pc = "returned" =>
        LET d      == uvci_data
            blocks == BlocksOf(cert_id)
            segs   == Split(blocks[5], "/")
            k      == Len(segs)
        IN  /\ (PassesGuards(cert_id) /\ Len(blocks) >= 5) =>
                  /\ k = 3 => /\ d.schema_option_number = 1
                              /\ d.schema_option_desc = "identifier with semantics"
                              /\ d.issuing_entity = segs[1]
                              /\ d.vaccine_id = segs[2]
                              /\ d.opaque_unique_string = segs[3]
                  /\ k = 1 => /\ d.schema_option_number = 2
                              /\ d.schema_option_desc = "opaque identifier - no structure"
                              /\ d.opaque_unique_string = segs[1]
                  /\ k = 2 => /\ d.schema_option_number = 3
                              /\ d.schema_option_desc = "some semantics"
                              /\ d.issuing_entity = segs[1]
                              /\ d.opaque_unique_string = segs[2]
                  /\ k \notin { 1, 2, 3 } => /\ d.schema_option_number = 0
                                             /\ d.schema_option_desc = ""
            /\ d.schema_option_number <= 3
            /\ d.schema_option_desc =
                  CASE d.schema_option_number = 1 -> "identifier with semantics"
                    [] d.schema_option_number = 2 -> "opaque identifier - no structure"
                    [] d.schema_option_number = 3 -> "some semantics"
                    [] OTHER -> ""
            /\ d.vaccine_id # << >> => d.schema_option_number = 1
            /\ d.issuing_entity # << >> => d.schema_option_number \in { 1, 3 }

\* parse has returned a record of each of the options 1, 2, 3 or of none:
\* here of option 1, from a fifth block of three segments.
C2_Witness ==
    /\ pc = "returned"
    /\ Len(BlocksOf(cert_id)) >= 5
    /\ Len(Split(BlocksOf(cert_id)[5], "/")) = 3
    /\ uvci_data.schema_option_number = 1
    /\ uvci_data.vaccine_id # << >>

\* C3: for the empty string and for every string of more than 72
\* characters, counted before the prefix is added, parse returns the
\* all-default record and makes no checksum computation.
C3_EarlyReject ==
    (Finished /\ (cert_id = << >> \/ Len(cert_id) > MaxCertIdLen)) =>
        /\ pc = "returned"
        /\ uvci_data = DefaultUvci
        /\ luhn_calls = 0

\* parse has returned for an identifier of more than 72 characters.
C3_Witness ==
    /\ pc = "returned"
    /\ Len(cert_id) > MaxCertIdLen
    /\ uvci_data = DefaultUvci

\* C4: each of the fifteen identifiers of the valid test family parses
\* with checksum_verification true, and the same fifteen bodies with the
\* check characters A,B,C,D,E,F,G,H,0,1,2,3,4,5,9 parse with
\* checksum_verification false.
C4_ChecksumRoundTrip ==
    /\ \A k \in 1..Len(ValidIds) :
          SubSeq(InvalidIds[k], 1, Len(InvalidIds[k]) - 1)
              = SubSeq(ValidIds[k], 1, Len(ValidIds[k]) - 1)
    /\ (Finished /\ cert_id \in Range(ValidIds)) =>
          pc = "returned" /\ uvci_data.checksum_verification
    /\ (Finished /\ cert_id \in Range(InvalidIds)) =>
          pc = "returned" /\ ~uvci_data.checksum_verification

\* parse has returned for the last identifier of the valid family, with
\* its check character 6 and a verified checksum.
C4_Witness ==
    /\ pc = "returned"
    /\ cert_id = ValidIds[Len(ValidIds)]
    /\ uvci_data.checksum = << "6" >>
    /\ uvci_data.checksum_verification

\* C5: for every string over the 38 symbols and '#', rearrange returns
\* the string without its '#' in which every character is replaced by the
\* symbol of the target order at the index the character has in the native
\* order.
C5_RemapByIndex ==
    (pc = "rearranged" /\ Range(cert_id) \subseteq Range(NativeOrder) \cup { "#" }) =>
        LET body == SelectSeq(cert_id, LAMBDA c : c # "#")
        IN  rearranged =
              Tuple([ i \in 1..Len(body) |-> LuhnAlphabet[IndexOf(body[i], NativeOrder)] ])

\* The five national conditions of a record.
National(d) ==
    /\ d.version = 1
    /\ d.country = SE
    /\ d.issuing_entity = EHM
    /\ d.schema_option_number = 3
    /\ Len(d.opaque_unique_string) = 13

\* C6: in every returned record opaque_id and opaque_issuance are set
\* exactly when version = 1, country = "SE", issuing_entity = "EHM",
\* schema_option = 3 and opaque_unique_string has 13 characters; then
\* opaque_id is its first 9 and opaque_issuance its last 4 characters and
\* month and year are the Date Estimator's result on opaque_id; in every
\* other case the four fields keep their defaults.
C6_NationalSubExtraction ==
    pc = "returned" =>
        LET d == uvci_data
        IN  /\ d.opaque_id # << >> <=> National(d)
            /\ d.opaque_issuance # << >> <=> National(d)
            /\ National(d) =>
                  /\ d.opaque_id = SubSeq(d.opaque_unique_string, 1, 9)
                  /\ d.opaque_issuance = SubSeq(d.opaque_unique_string, 10, 13)
                  /\ d.opaque_id \o d.opaque_issuance = d.opaque_unique_string
                  /\ << d.opaque_vaccination_month, d.opaque_vaccination_year >>
                        = get_vaccination_date_tan(d.opaque_id)
            /\ ~National(d) =>
                  /\ d.opaque_id = << >>
                  /\ d.opaque_issuance = << >>
                  /\ d.opaque_vaccination_month = 0
                  /\ d.opaque_vaccination_year = 0

\* parse has returned a Swedish record with its opaque id, its issuance
\* and an estimated date.
C6_Witness ==
    /\ pc = "returned"
    /\ National(uvci_data)
    /\ Len(uvci_data.opaque_id) = 9
    /\ Len(uvci_data.opaque_issuance) = 4
    /\ uvci_data.opaque_vaccination_month \in 1..12
    /\ uvci_data.opaque_vaccination_year >= 2021

\* The call and the call before it ended alike: both returned equal
\* records, or both panicked.
SameOutcome == prev.pc = pc /\ prev.uvci_data = uvci_data

\* C7: for every input s that does not begin, in either case, with
\* "URN:UVCI:", parse(s) and parse("URN:UVCI:" + s) return records equal
\* in all thirteen fields.
C7_PrefixTolerance ==
    (Finished /\ rel = "prefixed") => SameOutcome

\* C7 as amended: the same for every such s of at most 63 bytes, for which
\* the prefixed string still has at most 72.
C7_PrefixToleranceShort ==
    (Finished /\ rel = "prefixed"
        /\ Len(prev.cert_id) <= MaxCertIdLen - Len(URN_UVCI)) => SameOutcome

\* parse has returned for an unprefixed identifier and then for the same
\* identifier with the prefix, with a verified checksum.
C7_Witness ==
    /\ pc = "returned"
    /\ rel = "prefixed"
    /\ prev.pc = "returned"
    /\ Len(prev.cert_id) <= MaxCertIdLen - Len(URN_UVCI)
    /\ uvci_data.schema_option_number = 1
    /\ uvci_data.checksum_verification

IsLower(c) == \E i \in 1..Len(LowerLetters) : LowerLetters[i] = c
IsUpper(c) == \E i \in 1..Len(UpperLetters) : UpperLetters[i] = c

\* s holds only ASCII letters, digits, '/', ':' and '#'.
InClaimAlphabet(s) ==
    \A i \in 1..Len(s) :
        IsLower(s[i]) \/ IsUpper(s[i]) \/ s[i] \in Range(Digits) \cup { "/", ":", "#" }

NoLower(s) == \A i \in 1..Len(s) : ~IsLower(s[i])

C9_GraphGating ==
    (pc = "graphed" /\ ~National(uvci_data)) => cypher_cmd = << >>

\* The non-empty lines of a text.
Statements(text) == SelectSeq(Split(text, "\n"), LAMBDA line : line # << >>)

\* C10: the text uvcis_to_graph returns holds no two identical non-empty
\* lines; every distinct statement uvci_to_graph produces for an element
\* of the list is in it once and whole on a line of its own, in the order
\* of first occurrence.
C10_BatchDeduplication ==
    pc = "exported" =>
        Statements(cypher_output) =
            Unique(Statements(Concat(Tuple(
                [ k \in 1..Len(cert_ids) |-> uvci_to_graph(cert_ids[k]).text ]))))


\* The number a string of digits writes, up to 10^8.
Doses(s) == DecimalCapped(s, 100000000)

\* The pair the claims give for a raw month: December 2020 for 0, else the
\* month of 1..12 and the year counted from January 2021.
ClaimedDate(month_raw) ==
    IF month_raw = 0 THEN << 12, 2020 >>
    ELSE << ((month_raw - 1) % 12) + 1, ((month_raw - 1) \div 12) + 2021 >>

\* term - term * x^2 / ((k+1)(k+2)) + ..., in units of 1/one, for x >= 0:
\* the Taylor series of the sine (term = x, k = 1) and cosine (term = one,
\* k = 0).
RECURSIVE TaylorSum(_, _, _, _)
TaylorSum(term, x, k, one) ==
    IF term = 0 THEN 0
    ELSE term - TaylorSum((((term * x) \div (one * (k + 1))) * x) \div (one * (k + 2)),
                          x, k + 2, one)

\* 5.03 - 1.6 * tan((6991632 - n) / 5536858) in units of 1/10000, for
\* 0 <= n <= TanLimit; the error is below 0.003.
CurveValue(n) ==
    LET d   == TanCentre - n
        x   == ((IF d < 0 THEN -d ELSE d) * 100) \div (TanWidth \div 100)
        t16 == (16000 * TaylorSum(x, x, 1, 10000)) \div TaylorSum(10000, x, 0, 10000)
    IN  IF d < 0 THEN 50300 + t16 ELSE 50300 - t16

\* month_raw is the rounding of the curve at n, up to the error of
\* CurveValue: the two differ by at most 0.5 + 0.01.
RoundsTo(n, month_raw) ==
    LET diff == CurveValue(n) - month_raw * 10000
    IN  diff <= 5100 /\ -diff <= 5100

\* A string with no digit in it that is not the name of a special value.
NonNumeric(s) ==
    /\ \A i \in 1..Len(s) : IndexOf(s[i], Digits) = 0
    /\ Replace(Replace(Replace(s, "V", ""), "-", ""), "+", "")
          \notin { << "I","N","F" >>, << "I","N","F","I","N","I","T","Y" >>,
                   << "N","A","N" >> }

\* A minus sign before a digit string that is not zero.
NegativeNumber(s) ==
    /\ Len(s) > 1
    /\ s[1] = "-"
    /\ IsDigits(Tail(s))
    /\ DecimalCapped(Tail(s), 1) > 0

\* C11: a call of get_vaccination_date_tan with a digit string of value
\* n > 13,983,264 (n below 10^8) returns the month and year of
\* month_raw = floor(n / 1,552,008), the month in 1..12; a digit string in
\* the tangent regime whose curve value rounds to 0 returns (12, 2020); a
\* string that is no number, or a negative number, returns (0, 0).
C11_LinearRegime ==
    pc = "dated" =>
        /\ (IsDigits(opaque_id) /\ Doses(opaque_id) > TanLimit
               /\ Doses(opaque_id) < 100000000)
             => /\ vaccination_date = ClaimedDate(Doses(opaque_id) \div DosesPerMonth)
                /\ vaccination_date[1] \in 1..12
        /\ (IsDigits(opaque_id) /\ Doses(opaque_id) <= TanLimit
               /\ CurveValue(Doses(opaque_id)) < 4900)
             => vaccination_date = << 12, 2020 >>
        /\ (NonNumeric(opaque_id) \/ NegativeNumber(opaque_id))
             => vaccination_date = << 0, 0 >>


\* The calibration points: a dose count with the month and year it dates to.
Calibration ==
    { << 0, 12, 2020 >>, << 2014920, 3, 2021 >>, << 6991632, 5, 2021 >>,
      << 10427296, 6, 2021 >>, << 12916227, 8, 2021 >>,
      << 13592955, 9, 2021 >>, << 13983264, 10, 2021 >> }

\* C12: a call of get_vaccination_date_tan with a digit string of value
\* n <= 13,983,264 returns the month and year of a raw month that is the
\* rounding of 5.03 - 1.6 * tan((6,991,632 - n) / 5,536,858), and at each of
\* the seven calibration points it returns the month and year given there.
C12_TangentRegime ==
    pc = "dated" =>
        /\ (IsDigits(opaque_id) /\ Doses(opaque_id) <= TanLimit)
             => \E month_raw \in 0..12 :
                    /\ RoundsTo(Doses(opaque_id), month_raw)
                    /\ vaccination_date = ClaimedDate(month_raw)
        /\ \A c \in Calibration :
               opaque_id = NatToString(c[1]) => vaccination_date = << c[2], c[3] >>

\* The call with the last dose count of the curve has returned October 2021.
C12_Witness ==
    /\ pc = "dated"
    /\ opaque_id = NatToString(TanLimit)
    /\ vaccination_date = << 10, 2021 >>


\* C13: an identifier and the same identifier with another character of
\* the native alphabet after the '#' are never both parsed to a record with
\* checksum_verification set: of two identifiers that differ in the check
\* character alone at most one verifies.
C13_SubstitutionDetected ==
    (rel = "check" /\ pc = "returned" /\ prev.pc = "returned")
        => ~(uvci_data.checksum_verification
               /\ prev.uvci_data.checksum_verification)


\* parse has gone past the checksum and split the body on ':'.
ReachedSplit ==
    /\ pc \in { "returned", "graphed", "panicked" }
    /\ exit \notin { "none", "guard", "unwrap" }

\* C14: whenever parse reaches the split of the body on ':', the input is
\* non-empty and of at most 72 characters, the body has at least two blocks,
\* the first URN and the second UVCI, wherever the input holds a '#'; parse
\* does not leave by an index out of range nor by the return of the prefix
\* check but goes on to the checks of the number of blocks, with the checksum
\* verdict already in the record after one call of Luhn::validate.
C14_PrefixCheckNeverRejects ==
    ReachedSplit =>
        /\ PassesGuards(cert_id)
        /\ Len(BlocksOf(cert_id)) >= 2
        /\ BlocksOf(cert_id)[1] = URN
        /\ BlocksOf(cert_id)[2] = UVCI
        /\ exit \in { "blocks < 4", "blocks < 5", "end" }
        /\ luhn_calls = 1
        /\ uvci_data.checksum_verification
             = LuhnValidate(rearrange(Canonical(ToUppercase(cert_id)))).value

\* parse of an input that begins with '#' has returned at the first check of
\* the number of blocks.
C14_Witness ==
    /\ pc = "returned"
    /\ exit = "blocks < 4"
    /\ cert_id # << >>
    /\ cert_id[1] = "#"

=============================================================================
